---------------------------- MODULE Spec2Model ----------------------------
(***************************************************************************)
(* The task registry, the task runner threads, the crawl engine and the    *)
(* progress-stream generators of app.py.                                   *)
(*                                                                         *)
(* Every `with tasks_lock:` block that cannot block inside is one atomic   *)
(* step guarded by the lock being free.  The two places where a thread is  *)
(* suspended or waits while it owns the lock are explicit: a generator     *)
(* suspended at a `yield` inside the block, and the except handler of the  *)
(* runner calling log_progress inside the block.                           *)
(***************************************************************************)
EXTENDS Integers, Sequences, FiniteSets, TLC

(* ----------------------------- bounds --------------------------------- *)
\* number of task ids uuid4 can hand out in a run of the model
MaxTasks == 2
\* number of progress-stream connections in a run of the model
MaxObservers == 2
\* longest list of sites a submission carries
MaxSites == 2

TaskIds == 1..MaxTasks
Observers == 1..MaxObservers

(* --------------------------- configuration ---------------------------- *)
\* app.py line 19
MAX_DEPTH == 1

(* ------------------------------ addresses ----------------------------- *)
\* What urlparse yields for an address: scheme, netloc, path.  An address
\* for which urlparse raises ValueError (an unclosed "[" in the netloc) is
\* the record with bad = TRUE.
Url(s, n, p) == [scheme |-> s, netloc |-> n, path |-> p, bad |-> FALSE]
BadUrl == [scheme |-> "http", netloc |-> "[", path |-> "", bad |-> TRUE]

HomeA == Url("http", "a.com", "/")
AboutA == Url("http", "a.com", "/about")
TeamA == Url("http", "a.com", "/team")
BlogA == Url("http", "a.com", "/blog")
ContactA == Url("http", "a.com", "/contact")
HomeB == Url("https", "b.com", "/")
ContactB == Url("https", "b.com", "/contact")
HomeC == Url("http", "c.com", "/")
\* "http://" : what request_scrape makes of the input "http://"
NoHost == Url("http", "", "")
MailtoX == Url("mailto", "", "x@a.com")

\* is_valid_url; the caller handles the ValueError of a bad address
is_valid_url(url) ==
    url.scheme # "" /\ url.netloc # "" /\ url.scheme \notin {"mailto", "tel"}

\* An href is an absolute address or a path relative to the page.
AbsHref(u) == [abs |-> TRUE, url |-> u, path |-> ""]
RelHref(p) == [abs |-> FALSE, url |-> NoHost, path |-> p]

\* urljoin(current_url, href)
urljoin(base, href) ==
    IF href.abs THEN href.url ELSE Url(base.scheme, base.netloc, href.path)

\* TARGET_PAGE_KEYWORDS matching of line 115: the lowercased hrefs and link
\* texts of the modelled pages that contain one of the keywords
KeywordStrings ==
    {"/about", "/contact", "about us", "contact", "contact the team",
     "contact home", "support"}
HrefText(href) == IF href.abs THEN href.url.path ELSE href.path
is_target_link(link) ==
    HrefText(link.href) \in KeywordStrings \/ link.text \in KeywordStrings

Link(h, t) == [href |-> h, text |-> t]

\* The pages the fetches can return: the emails find_emails_on_page finds
\* in the page text and the anchors in document order.
Page(e, l) == [emails |-> e, links |-> l]
Web(url) ==
    CASE url = HomeA ->
           Page({"info@a.com"},
                << Link(RelHref("/about"), "about us"),
                   Link(RelHref("/blog"), "blog"),
                   Link(RelHref("/about"), "company"),
                   Link(AbsHref(ContactB), "contact"),
                   Link(AbsHref(MailtoX), "support"),
                   Link(RelHref("/"), "contact home"),
                   Link(RelHref("/team"), "contact the team") >>)
      [] url = AboutA ->
           Page({"ceo@a.com", "info@a.com"},
                << Link(RelHref("/contact"), "contact") >>)
      [] url = TeamA -> Page({}, << >>)
      [] url = HomeB -> Page({"hi@b.com"}, << >>)
      [] url = HomeC ->
           Page({}, << Link(RelHref("/about"), "about us"),
                       Link(AbsHref(BadUrl), "contact") ,
                       Link(RelHref("/contact"), "contact") >>)
      [] OTHER -> Page({}, << >>)


\* sorted(list(emails)): the modelled addresses in lexicographic order
EmailOrder == << "ceo@a.com", "hi@b.com", "info@a.com" >>
sorted(emails) == SelectSeq(EmailOrder, LAMBDA e : e \in emails)

(* ------------------------------- state -------------------------------- *)
VARIABLES
    tasks,            \* the tasks dictionary: task id -> record
    lock,             \* owner of tasks_lock, or Free
    inflight,         \* request_scrape calls between thread.start() and return
    files,            \* TEMP_DIR: task id -> the artifact file, if any
    wpc,              \* position of each run_scraping_task_thread
    wi,               \* enumerate index i of the runner (0-based)
    rows,             \* all_scraped_data_consolidated
    exc,              \* the exception e the runner caught
    visited_urls,     \* crawl engine locals, per running invocation
    emails_collected,
    urls_to_visit,
    cur,              \* (current_url, current_processing_depth)
    li,               \* position of the link loop of lines 110-123
    found,            \* found_target_page_on_current
    opc,              \* position of each generate() generator
    otask,            \* task_id of the stream
    last_sent_idx,
    new_messages,     \* the slice taken at line 246
    sent_in_batch,    \* how many of new_messages the for loop has yielded
    sent,             \* the events the generator has yielded so far
    late              \* the task was complete when the stream was opened

storeVars == << tasks, lock, inflight, files >>
runnerVars == << wpc, wi, rows, exc >>
crawlVars == << visited_urls, emails_collected, urls_to_visit, cur, li, found >>
streamVars == << opc, otask, last_sent_idx, new_messages, sent_in_batch, sent,
                 late >>
vars == << storeVars, runnerVars, crawlVars, streamVars >>

None == << >>
Free == << "free", 0 >>
Runner(t) == << "runner", t >>
Stream(o) == << "stream", o >>

\* A line of the log.  Lines are told apart by their text, the address
\* and the numbers they are formatted with.
Msg(text, url, n, emails) ==
    [text |-> text, url |-> url, n |-> n, emails |-> emails]
TaskInitiated == Msg("Task initiated.", NoHost, 0, << >>)

\* f"scraped_emails_{task_id}.csv"
csv_filename_unset(task_id) == None
csv_filename(task_id) == << "scraped_emails_", task_id, ".csv" >>

NoEntry == << Url("", "", ""), -1 >>
NoFile == [exists |-> FALSE, rows |-> << >>]

Status(t) == tasks[t].status
Log(t) == tasks[t].progress_messages
Terminal(t) == t \in DOMAIN tasks /\ Status(t) \in {"complete", "error"}

(* ----------------------------- task store ----------------------------- *)
\* the body of log_progress once the lock is owned (lines 133-139)
appended_front(task_id, message) ==
    IF task_id \in DOMAIN tasks
    THEN [tasks EXCEPT ![task_id].progress_messages = << message >> \o @]
    ELSE tasks
appended(task_id, message) ==
    IF task_id \in DOMAIN tasks
    THEN [tasks EXCEPT ![task_id].progress_messages = Append(@, message)]
    ELSE tasks

\* log_progress: blocks until tasks_lock is free (threading.Lock is not
\* reentrant: the owner itself blocks too), appends, releases.
log_progress(task_id, message) ==
    /\ lock = Free
    /\ tasks' = appended(task_id, message)
    /\ UNCHANGED lock


(* -------------------------- request_scrape ---------------------------- *)
\* str(uuid.uuid4()): an id no earlier call produced; every id produced is
\* a key of tasks by the time the next one is drawn
uuid4_repeat == CHOOSE id \in TaskIds : \A j \in TaskIds : id <= j
uuid4 == CHOOSE id \in TaskIds \cup {MaxTasks + 1} :
            /\ id \notin DOMAIN tasks
            /\ \A j \in TaskIds : j < id => j \in DOMAIN tasks

NewTask(websites_to_process) ==
    [status |-> "pending",
     urls |-> websites_to_process,
     progress_messages |-> << TaskInitiated >>,
     filename |-> None,
     error_message |-> None]

\* lines 216-229: the record is inserted under the lock and the runner
\* thread is started; the id is not yet returned
request_scrape(task_id, websites_to_process) ==
    /\ task_id = uuid4
    /\ lock = Free
    /\ tasks' = [id \in DOMAIN tasks \cup {task_id} |->
                    IF id = task_id THEN NewTask(websites_to_process)
                    ELSE tasks[id]]
    /\ wpc' = [wpc EXCEPT ![task_id] = "start"]
    /\ inflight' = inflight \cup {task_id}
    /\ UNCHANGED << lock, files, wi, rows, exc, crawlVars, streamVars >>

\* line 231
return_task_id(task_id) ==
    /\ task_id \in inflight
    /\ inflight' = inflight \ {task_id}
    /\ UNCHANGED << tasks, lock, files, runnerVars, crawlVars, streamVars >>

(* ----------------------- run_scraping_task_thread --------------------- *)
website_url(t) == tasks[t].urls[wi[t] + 1]
total_websites(t) == Len(tasks[t].urls)
current_url(t) == cur[t][1]
current_processing_depth(t) == cur[t][2]
base_domain(t) == website_url(t).netloc
Sentinel == << "NO_EMAILS_FOUND_OR_ERROR" >>

\* lines 145-146
set_processing(t) ==
    /\ wpc[t] = "start"
    /\ lock = Free
    /\ tasks' = [tasks EXCEPT ![t].status = "processing"]
    /\ wpc' = [wpc EXCEPT ![t] = "site_hdr"]
    /\ wi' = [wi EXCEPT ![t] = 0]
    /\ UNCHANGED << lock, inflight, files, rows, exc, crawlVars,
                    streamVars >>

\* lines 157-163: the row of a site, once the crawl has returned `emails`
row_of_blank(url, emails) == << url, Sentinel >>
row_of(url, emails) ==
    IF emails # {} THEN << url, sorted(emails) >> ELSE << url, Sentinel >>

\* the statement at which the runner continues when the crawl returns
after_crawl(emails) == IF emails # {} THEN "site_ok" ELSE "site_none"

(* --------------------- scrape_website_emails_for_task ----------------- *)
\* lines 63-75: ValueError of urlparse escapes to the runner; an invalid
\* base address is logged under the lock and the empty set returned;
\* otherwise the locals are set up
crawl_enter(t) ==
    LET base_url == website_url(t) IN
    /\ wpc[t] = "crawl_enter"
    /\ IF base_url.bad
       THEN /\ wpc' = [wpc EXCEPT ![t] = "except"]
            /\ exc' = [exc EXCEPT ![t] = << "Invalid IPv6 URL" >>]
            /\ UNCHANGED << tasks, rows, crawlVars >>
       ELSE IF ~ is_valid_url(base_url)
       THEN /\ lock = Free
            /\ tasks' = appended(t, Msg("Skipping invalid base URL",
                                        base_url, 0, << >>))
            /\ rows' = [rows EXCEPT ![t] = Append(@, row_of(base_url, {}))]
            /\ wpc' = [wpc EXCEPT ![t] = after_crawl({})]
            /\ UNCHANGED << exc, crawlVars >>
       ELSE /\ visited_urls' = [visited_urls EXCEPT ![t] = {}]
            /\ emails_collected' = [emails_collected EXCEPT ![t] = {}]
            /\ urls_to_visit' = [urls_to_visit EXCEPT ![t] = << << base_url, 0 >> >>]
            /\ wpc' = [wpc EXCEPT ![t] = "crawl_start"]
            /\ UNCHANGED << tasks, rows, exc, cur, li, found >>
    /\ UNCHANGED << lock, inflight, files, wi, streamVars >>

\* urlparse(url).netloc == base_domain, lines 81 and 118
same_domain_any(t, url) == url.netloc # ""
same_domain(t, url) == url.netloc = base_domain(t)

\* line 80-81: the popped address is skipped
skipped(t, url) ==
    \/ url \in visited_urls[t]
    \/ ~ is_valid_url(url)
    \/ ~ same_domain(t, url)

\* lines 78-84 and 128: pop the front of the frontier and skip it or mark
\* it visited; with the frontier empty, return emails_collected
crawl_loop(t) ==
    /\ wpc[t] = "loop"
    /\ IF urls_to_visit[t] = << >>
       THEN /\ rows' = [rows EXCEPT ![t] =
                          Append(@, row_of(website_url(t), emails_collected[t]))]
            /\ wpc' = [wpc EXCEPT ![t] = after_crawl(emails_collected[t])]
            /\ visited_urls' = [visited_urls EXCEPT ![t] = {}]
            /\ emails_collected' = [emails_collected EXCEPT ![t] = {}]
            /\ cur' = [cur EXCEPT ![t] = NoEntry]
            /\ UNCHANGED urls_to_visit
       ELSE LET entry == Head(urls_to_visit[t]) IN
            /\ urls_to_visit' = [urls_to_visit EXCEPT ![t] = Tail(@)]
            /\ IF skipped(t, entry[1])
               THEN UNCHANGED << wpc, visited_urls, cur >>
               ELSE /\ visited_urls' = [visited_urls EXCEPT ![t] = @ \cup {entry[1]}]
                    /\ cur' = [cur EXCEPT ![t] = entry]
                    /\ wpc' = [wpc EXCEPT ![t] = "scraping"]
            /\ UNCHANGED << rows, emails_collected >>
    /\ UNCHANGED << storeVars, wi, exc, li, found, streamVars >>

\* line 107
discovers_any(t) == MAX_DEPTH >= 1
discovers(t) == MAX_DEPTH >= 1 /\ current_processing_depth(t) = 0

\* lines 88-103: the pacing sleep, the fetch and the parse; a failure is
\* caught at line 126
fetch_page(t) ==
    /\ wpc[t] = "fetch"
    /\ \E ok \in BOOLEAN :
         LET emails_on_page == Web(current_url(t)).emails IN
         /\ wpc' = [wpc EXCEPT ![t] =
                      IF ~ ok THEN "page_error"
                      ELSE IF emails_on_page # {} THEN "found_emails"
                      ELSE IF discovers(t) THEN "searching"
                      ELSE "loop"]
         /\ exc' = [exc EXCEPT ![t] = IF ok THEN @ ELSE << "fetch failed" >>]
    /\ UNCHANGED << storeVars, wi, rows, crawlVars, streamVars >>

\* line 118-120
enqueues_any(t, next_url) ==
    same_domain(t, next_url) /\ is_valid_url(next_url)
enqueues(t, next_url) ==
    /\ same_domain(t, next_url)
    /\ next_url \notin visited_urls[t]
    /\ is_valid_url(next_url)
    /\ \A k \in 1..Len(urls_to_visit[t]) : urls_to_visit[t][k][1] # next_url

\* lines 110-124: one anchor of the link loop; urljoin raising on a bad
\* href is caught at line 126
crawl_links(t) ==
    LET links == Web(current_url(t)).links IN
    /\ wpc[t] = "links"
    /\ IF li[t] > Len(links)
       THEN /\ wpc' = [wpc EXCEPT ![t] = IF found[t] THEN "loop" ELSE "none_found"]
            /\ UNCHANGED << urls_to_visit, li, exc >>
       ELSE LET link == links[li[t]]
                next_url == urljoin(current_url(t), link.href) IN
            IF ~ is_target_link(link)
            THEN /\ li' = [li EXCEPT ![t] = @ + 1]
                 /\ UNCHANGED << wpc, urls_to_visit, exc >>
            ELSE IF next_url.bad
            THEN /\ wpc' = [wpc EXCEPT ![t] = "page_error"]
                 /\ exc' = [exc EXCEPT ![t] = << "Invalid IPv6 URL" >>]
                 /\ UNCHANGED << urls_to_visit, li >>
            ELSE IF enqueues(t, next_url)
            THEN /\ urls_to_visit' = [urls_to_visit EXCEPT ![t] =
                        Append(@, << next_url, current_processing_depth(t) + 1 >>)]
                 /\ wpc' = [wpc EXCEPT ![t] = "queued"]
                 /\ UNCHANGED << li, exc >>
            ELSE /\ li' = [li EXCEPT ![t] = @ + 1]
                 /\ UNCHANGED << wpc, urls_to_visit, exc >>
    /\ UNCHANGED << storeVars, wi, rows, visited_urls, emails_collected, cur,
                    found, streamVars >>


\* the orders in which iterating a set can yield its elements
Orders(S) ==
    { f \in [1..Cardinality(S) -> S] :
        \A i, j \in 1..Cardinality(S) : i # j => f[i] # f[j] }

\* the statements of the runner and of the crawl engine that are a call
\* of log_progress, and the line each appends
LogPcs ==
    {"site_hdr", "crawl_start", "scraping", "found_emails", "searching",
     "queued", "none_found", "page_error", "site_ok", "site_none",
     "log_complete", "except_log"}

LogMsgs(t) ==
    CASE wpc[t] = "site_hdr" ->      \* line 153
           { Msg("--- Processing website", website_url(t), wi[t] + 1, << >>) }
      [] wpc[t] = "crawl_start" ->   \* line 76
           { Msg("Starting scrape for", website_url(t), MAX_DEPTH, << >>) }
      [] wpc[t] = "scraping" ->      \* line 85
           { Msg(IF current_processing_depth(t) = 0
                 THEN "Scraping (Homepage)" ELSE "Scraping (Target Page)",
                 current_url(t), 0, << >>) }
      [] wpc[t] = "found_emails" ->  \* line 104
           { Msg("Found emails", current_url(t), 0, order) :
               order \in Orders(Web(current_url(t)).emails) }
      [] wpc[t] = "searching" ->     \* line 108
           { Msg("Searching for target pages on", current_url(t), 0, << >>) }
      [] wpc[t] = "queued" ->        \* line 122
           { Msg("Queued target page",
                 urls_to_visit[t][Len(urls_to_visit[t])][1], 0, << >>) }
      [] wpc[t] = "none_found" ->    \* line 125
           { Msg("No new target pages found or queued from",
                 current_url(t), 0, << >>) }
      [] wpc[t] = "page_error" ->    \* line 127
           { Msg("Error scraping", current_url(t), 0, exc[t]) }
      [] wpc[t] = "site_ok" ->       \* line 161
           { Msg("Successfully scraped", website_url(t),
                 Len(rows[t][Len(rows[t])][2]), rows[t][Len(rows[t])][2]) }
      [] wpc[t] = "site_none" ->     \* line 164
           { Msg("No emails found for", website_url(t), 0, << >>) }
      [] wpc[t] = "log_complete" ->  \* line 176
           { Msg("Scraping complete. Results saved to server",
                 NoHost, t, << >>) }
      [] wpc[t] = "except_log" ->    \* line 188
           { Msg("A critical error occurred", NoHost, 0, exc[t]) }

\* the statement that follows each call
\* lines 126-127: the failure of a page is caught inside the while loop,
\* which goes on with its next iteration
on_page_error_raise == "except"
on_page_error == "loop"
AfterLog(t) ==
    CASE wpc[t] = "site_hdr" -> "crawl_enter"
      [] wpc[t] = "crawl_start" -> "loop"
      [] wpc[t] = "scraping" -> "fetch"
      [] wpc[t] = "found_emails" -> IF discovers(t) THEN "searching" ELSE "loop"
      [] wpc[t] = "searching" -> "links"
      [] wpc[t] = "queued" -> "links"
      [] wpc[t] = "none_found" -> "loop"
      [] wpc[t] = "page_error" -> on_page_error
      [] wpc[t] \in {"site_ok", "site_none"} ->
           IF wi[t] + 1 < total_websites(t) THEN "site_hdr" ELSE "write"
      [] wpc[t] = "log_complete" -> "set_complete"
      [] wpc[t] = "except_log" -> "done"

\* a call of log_progress by the thread of task t, with the local
\* assignments that surround it (lines 105, 109, 123, the loop steps)
runner_log(t) ==
    /\ wpc[t] \in LogPcs
    /\ \E message \in LogMsgs(t) : log_progress(t, message)
    /\ wpc' = [wpc EXCEPT ![t] = AfterLog(t)]
    /\ wi' = [wi EXCEPT ![t] =
                IF wpc[t] \in {"site_ok", "site_none"} THEN @ + 1 ELSE @]
    /\ emails_collected' = [emails_collected EXCEPT ![t] =
                IF wpc[t] = "found_emails"
                THEN @ \cup Web(current_url(t)).emails ELSE @]
    /\ li' = [li EXCEPT ![t] =
                IF wpc[t] = "searching" THEN 1
                ELSE IF wpc[t] = "queued" THEN @ + 1 ELSE @]
    /\ found' = [found EXCEPT ![t] =
                IF wpc[t] = "searching" THEN FALSE
                ELSE IF wpc[t] = "queued" THEN TRUE ELSE @]
    /\ exc' = [exc EXCEPT ![t] = IF wpc[t] = "page_error" THEN None ELSE @]
    /\ UNCHANGED << inflight, files, rows, visited_urls,
                    urls_to_visit, cur, streamVars >>

\* header row and data rows of the artifact
Header == << "Website", "Emails Found" >>
FileOf(data) == [exists |-> TRUE, rows |-> << Header >> \o data]

\* lines 167-174: the artifact is written; open() or a write can raise
write_csv(t) ==
    /\ wpc[t] = "write"
    /\ \E outcome \in {"written", "open fails", "write fails"} :
         /\ files' = [files EXCEPT ![t] =
                        CASE outcome = "written" -> FileOf(rows[t])
                          [] outcome = "open fails" -> @
                          [] outcome = "write fails" -> FileOf(<< >>)]
         /\ wpc' = [wpc EXCEPT ![t] =
                        IF outcome = "written" THEN "log_complete" ELSE "except"]
         /\ exc' = [exc EXCEPT ![t] =
                        IF outcome = "written" THEN @ ELSE << outcome >>]
    /\ UNCHANGED << tasks, lock, inflight, wi, rows, crawlVars,
                    streamVars >>

\* lines 177-180
set_complete(t) ==
    /\ wpc[t] = "set_complete"
    /\ lock = Free
    /\ tasks' = [tasks EXCEPT ![t].status = "complete",
                              ![t].filename = csv_filename(t)]
    /\ wpc' = [wpc EXCEPT ![t] = "done"]
    /\ UNCHANGED << lock, inflight, files, wi, rows, exc, crawlVars,
                    streamVars >>

\* the writes of the except handler, lines 186-187
failed_retry(t) ==
    [tasks EXCEPT ![t].status = "pending", ![t].error_message = exc[t]]
failed_all(t) ==
    [id \in DOMAIN tasks |->
        [tasks[id] EXCEPT !.status = "error", !.error_message = exc[t]]]
failed(t) ==
    [tasks EXCEPT ![t].status = "error", ![t].error_message = exc[t]]

\* lines 182-187: the handler takes the lock and, still owning it, goes on
\* to the log_progress call of line 188
except_handler(t) ==
    /\ wpc[t] = "except"
    /\ lock = Free
    /\ lock' = IF t \in DOMAIN tasks THEN Runner(t) ELSE Free
    /\ tasks' = IF t \in DOMAIN tasks THEN failed(t) ELSE tasks
    /\ wpc' = [wpc EXCEPT ![t] = IF t \in DOMAIN tasks THEN "except_log" ELSE "done"]
    /\ UNCHANGED << inflight, files, wi, rows, exc, crawlVars,
                    streamVars >>


(* ------------------------ progress_stream.generate -------------------- *)
NoMsg == Msg("", NoHost, 0, << >>)
Event(kind, msg, ref) == [kind |-> kind, msg |-> msg, ref |-> ref]
DataEvent(msg) == Event("data", msg, None)                 \* line 249
CompleteEvent(filename) == Event("COMPLETE", NoMsg, filename)   \* line 254
ErrorEvent(error_msg) == Event("ERROR", NoMsg, error_msg)       \* line 258
NotFoundEvent_line(task_id) == DataEvent(TaskInitiated)
NotFoundEvent(task_id) == Event("NOTFOUND", NoMsg, << task_id >>) \* line 240

\* current_progress_messages[last_sent_idx+1:]
slice_from_skip(messages, idx) == SubSeq(messages, idx + 3, Len(messages))
slice_from_one(messages, idx) ==
    SubSeq(messages, idx + 2, IF idx + 2 <= Len(messages) THEN idx + 2 ELSE 0)
slice_from(messages, idx) == SubSeq(messages, idx + 2, Len(messages))

\* last_sent_idx += len(new_messages), line 251
advance_assign(idx, batch) == Len(batch) - 1
advance(idx, batch) == idx + Len(batch)

\* the request is routed to progress_stream and the generator created
open_stream(o, task_id) ==
    /\ opc[o] = "unopened"
    /\ opc' = [opc EXCEPT ![o] = "poll"]
    /\ otask' = [otask EXCEPT ![o] = task_id]
    /\ last_sent_idx' = [last_sent_idx EXCEPT ![o] = -1]
    /\ late' = [late EXCEPT ![o] =
                  task_id \in DOMAIN tasks /\ Status(task_id) = "complete"]
    /\ UNCHANGED << storeVars, runnerVars, crawlVars, new_messages,
                    sent_in_batch, sent >>

\* lines 248-259 from the point where k lines of the slice `batch` have
\* been yielded: the next line is yielded; after the last one the cursor
\* advances and the status decides between a terminal event (yielded with
\* the lock owned) and leaving the block for the sleep of line 261
emit_from(o, batch, k) ==
    LET current_task == tasks[otask[o]] IN
    IF k < Len(batch)
    THEN /\ sent' = [sent EXCEPT ![o] = Append(@, DataEvent(batch[k + 1]))]
         /\ new_messages' = [new_messages EXCEPT ![o] = batch]
         /\ sent_in_batch' = [sent_in_batch EXCEPT ![o] = k + 1]
         /\ opc' = [opc EXCEPT ![o] = "yield_msg"]
         /\ lock' = Stream(o)
         /\ UNCHANGED last_sent_idx
    ELSE /\ last_sent_idx' = [last_sent_idx EXCEPT ![o] = advance(@, batch)]
         /\ new_messages' = [new_messages EXCEPT ![o] = << >>]
         /\ sent_in_batch' = [sent_in_batch EXCEPT ![o] = 0]
         /\ IF current_task.status = "complete"
            THEN /\ sent' = [sent EXCEPT ![o] =
                               Append(@, CompleteEvent(current_task.filename))]
                 /\ opc' = [opc EXCEPT ![o] = "yield_end"]
                 /\ lock' = Stream(o)
            ELSE IF current_task.status = "error"
            THEN /\ sent' = [sent EXCEPT ![o] =
                               Append(@, ErrorEvent(current_task.error_message))]
                 /\ opc' = [opc EXCEPT ![o] = "yield_end"]
                 /\ lock' = Stream(o)
            ELSE /\ opc' = [opc EXCEPT ![o] = "poll"]
                 /\ lock' = Free
                 /\ UNCHANGED sent

\* lines 237-246: one iteration of the while loop begins: the lock is
\* taken, the id looked up and the slice past the cursor taken
poll(o) ==
    /\ opc[o] = "poll"
    /\ lock = Free
    /\ IF otask[o] \notin DOMAIN tasks
       THEN /\ sent' = [sent EXCEPT ![o] = Append(@, NotFoundEvent(otask[o]))]
            /\ opc' = [opc EXCEPT ![o] = "yield_end"]
            /\ lock' = Stream(o)
            /\ UNCHANGED << last_sent_idx, new_messages, sent_in_batch >>
       ELSE emit_from(o, slice_from(Log(otask[o]), last_sent_idx[o]), 0)
    /\ UNCHANGED << tasks, inflight, files, runnerVars, crawlVars,
                    otask, late >>

\* the client takes the next event: the generator resumes after its yield
resume(o) ==
    /\ opc[o] \in {"yield_msg", "yield_end"}
    /\ IF opc[o] = "yield_msg"
       THEN emit_from(o, new_messages[o], sent_in_batch[o])
       ELSE /\ opc' = [opc EXCEPT ![o] = "done"]     \* break
            /\ lock' = Free
            /\ UNCHANGED << last_sent_idx, new_messages, sent_in_batch, sent >>
    /\ UNCHANGED << tasks, inflight, files, runnerVars, crawlVars,
                    otask, late >>

\* the client goes away and the server closes the generator: GeneratorExit
\* is raised at the yield and unwinds the with block
close_stream(o) ==
    /\ opc[o] \in {"poll", "yield_msg", "yield_end"}
    /\ opc' = [opc EXCEPT ![o] = "closed"]
    /\ lock' = IF lock = Stream(o) THEN Free ELSE lock
    /\ new_messages' = [new_messages EXCEPT ![o] = << >>]
    /\ sent_in_batch' = [sent_in_batch EXCEPT ![o] = 0]
    /\ last_sent_idx' = [last_sent_idx EXCEPT ![o] = -1]
    /\ sent' = [sent EXCEPT ![o] = << >>]
    /\ UNCHANGED << tasks, inflight, files, runnerVars, crawlVars,
                    otask, late >>

(* --------------------------- specifications --------------------------- *)
\* the addresses submissions are drawn from: a one-page site, the address
\* request_scrape makes of "http://", and one urlparse rejects
SubmittedSites == { HomeB, NoHost, BadUrl }
SiteLists == UNION { [1..n -> SubmittedSites] : n \in 1..MaxSites }
SingleSites == { << url >> : url \in SubmittedSites }

Init ==
    /\ tasks = << >>
    /\ lock = Free
    /\ inflight = {}
    /\ files = [t \in TaskIds |-> NoFile]
    /\ wpc = [t \in TaskIds |-> "idle"]
    /\ wi = [t \in TaskIds |-> 0]
    /\ rows = [t \in TaskIds |-> << >>]
    /\ exc = [t \in TaskIds |-> None]
    /\ visited_urls = [t \in TaskIds |-> {}]
    /\ emails_collected = [t \in TaskIds |-> {}]
    /\ urls_to_visit = [t \in TaskIds |-> << >>]
    /\ cur = [t \in TaskIds |-> NoEntry]
    /\ li = [t \in TaskIds |-> 0]
    /\ found = [t \in TaskIds |-> FALSE]
    /\ opc = [o \in Observers |-> "unopened"]
    /\ otask = [o \in Observers |-> 0]
    /\ last_sent_idx = [o \in Observers |-> -1]
    /\ new_messages = [o \in Observers |-> << >>]
    /\ sent_in_batch = [o \in Observers |-> 0]
    /\ sent = [o \in Observers |-> << >>]
    /\ late = [o \in Observers |-> FALSE]

\* the steps of the thread of task t
RunnerStep(t) ==
    \/ set_processing(t)
    \/ runner_log(t)
    \/ crawl_enter(t)
    \/ crawl_loop(t)
    \/ fetch_page(t)
    \/ crawl_links(t)
    \/ write_csv(t)
    \/ set_complete(t)
    \/ except_handler(t)

\* the steps of the request handlers
Submit(T, Lists) ==
    \/ \E t \in T, websites_to_process \in Lists :
          request_scrape(t, websites_to_process)
    \/ \E t \in T : return_task_id(t)

\* the steps of the stream o, opened for one of the ids Ids
StreamStep(o, Ids) ==
    \/ \E t \in Ids : open_stream(o, t)
    \/ poll(o)
    \/ resume(o)
    \/ close_stream(o)

\* the whole application
Next ==
    \/ Submit(TaskIds, SiteLists)
    \/ \E t \in TaskIds : RunnerStep(t)
    \/ \E o \in Observers : StreamStep(o, TaskIds)

Spec == Init /\ [][Next]_vars

\* concurrent submissions and their runner threads, no stream open
TasksNext ==
    \/ Submit(TaskIds, SingleSites)
    \/ \E t \in TaskIds : RunnerStep(t)

TasksSpec == Init /\ [][TasksNext]_vars

\* one submission, its runner thread and the streams that tail it or ask
\* for an id that was never issued; the return of the id to the submitter,
\* which touches nothing a runner or a stream reads, is left out
StreamNext ==
    \/ \E websites_to_process \in SingleSites :
          request_scrape(1, websites_to_process)
    \/ RunnerStep(1)
    \/ \E o \in Observers : StreamStep(o, {1, MaxTasks})

StreamSpec == Init /\ [][StreamNext]_vars


\* one submission of up to MaxSites sites and its runner thread
RunnerSites == { HomeA, HomeB, HomeC, NoHost, BadUrl }
RunnerLists == UNION { [1..n -> RunnerSites] : n \in 1..MaxSites }
RunnerNext ==
    \/ Submit({1}, RunnerLists)
    \/ RunnerStep(1)

RunnerSpec == Init /\ [][RunnerNext]_vars

\* Runner threads are scheduled whenever they can run; a thread waiting
\* for tasks_lock gets it if it is released often enough.
RunnerFairness == \A t \in TaskIds : SF_vars(RunnerStep(t))
\* The clients of the streams keep reading and the generators keep polling.
StreamFairness ==
    \A o \in Observers : SF_vars(poll(o)) /\ WF_vars(resume(o))

FairTasksSpec == TasksSpec /\ RunnerFairness
FairRunnerSpec == RunnerSpec /\ RunnerFairness
FairStreamSpec == StreamSpec /\ RunnerFairness /\ StreamFairness
\* the runners are scheduled; the clients of the streams do as they like
FairRunnerStreamSpec == StreamSpec /\ RunnerFairness

(* ------------------------------- claims ------------------------------- *)
AllowedTransitions ==
    { << "pending", "processing" >>, << "processing", "complete" >>,
      << "processing", "error" >> }

\* C1: a record is created Pending; its status only moves Pending ->
\* Processing -> Complete or Error; Processing is set by the runner's first
\* step, before any line of a site is logged; a terminal status never
\* changes again.
C1_StatusTransitions ==
    [][\A t \in TaskIds :
        /\ (t \notin DOMAIN tasks /\ t \in DOMAIN tasks')
              => tasks'[t].status = "pending"
        /\ t \in DOMAIN tasks =>
              /\ t \in DOMAIN tasks'
              /\ tasks'[t].status # tasks[t].status
                    => /\ << tasks[t].status, tasks'[t].status >>
                             \in AllowedTransitions
                       /\ tasks'[t].status = "processing"
                             => /\ wpc[t] = "start"
                                /\ Log(t) = << TaskInitiated >>]_vars

C1_Witness ==
    \E a, b \in DOMAIN tasks : Status(a) = "complete" /\ Status(b) = "error"

\* a step of the thread of task a
RunnerMoved(a) ==
    << wpc[a], wi[a], rows[a], exc[a], urls_to_visit[a], li[a] >>' #
    << wpc[a], wi[a], rows[a], exc[a], urls_to_visit[a], li[a] >>

\* C3: the except handler of task a, and every other step of a's thread,
\* leaves the record of every other task as it was.
C3_FatalErrorFrame ==
    [][\A a \in TaskIds : RunnerMoved(a) =>
          \A b \in DOMAIN tasks \ {a} :
              b \in DOMAIN tasks' /\ tasks'[b] = tasks[b]]_vars

C3_Witness ==
    \E a, b \in DOMAIN tasks :
        /\ a # b
        /\ wpc[a] = "except_log" /\ Status(a) = "error"
        /\ Status(b) = "processing" /\ Len(Log(b)) > 1

\* the handler request_scrape of task t inserts the record / returns the id
Created(t) == t \notin inflight /\ t \in inflight'
Returned(t) == t \in inflight /\ t \notin inflight'

\* C8 as claimed: the id is new, and when it is returned the record reads
\* Pending.
C8_PendingAtReturn ==
    [][\A t \in TaskIds :
        /\ Created(t) => t \notin DOMAIN tasks
        /\ Returned(t) => t \in DOMAIN tasks /\ Status(t) = "pending"]_vars

\* C8 amended: the id is new and its record is inserted Pending; when the
\* id is returned the record is in the registry, and it reads Pending
\* exactly if the runner thread has not taken its first step.
C8_FreshAndReadable ==
    [][\A t \in TaskIds :
        /\ Created(t) =>
              /\ t \notin DOMAIN tasks
              /\ t \in DOMAIN tasks' /\ tasks'[t].status = "pending"
        /\ Returned(t) =>
              /\ t \in DOMAIN tasks
              /\ Status(t) = "pending" <=> wpc[t] = "start"]_vars

C8_Witness ==
    /\ DOMAIN tasks = {1, 2} /\ inflight = {}
    /\ Status(1) = "processing" /\ Status(2) = "pending"

\* C4: whatever happens to another task, a task whose runner has started
\* reaches Complete or Error.
C4_OtherTaskProgresses ==
    \A b \in TaskIds : (wpc[b] = "start") ~> Terminal(b)


\* the log lines stream o has yielded, in the order it yielded them
Lines(o) ==
    LET data == SelectSeq(sent[o], LAMBDA e : e.kind = "data") IN
    [i \in 1..Len(data) |-> data[i].msg]
IsPrefix(s, r) == Len(s) <= Len(r) /\ s = SubSeq(r, 1, Len(s))
Tailing(o) == opc[o] # "unopened" /\ otask[o] \in DOMAIN tasks
\* a step of stream o
StreamMoved(o) ==
    << opc[o], last_sent_idx[o], sent[o], sent_in_batch[o] >>' #
    << opc[o], last_sent_idx[o], sent[o], sent_in_batch[o] >>
StreamFrame ==
    \A o \in Observers : StreamMoved(o) =>
        /\ tasks' = tasks
        /\ \A p \in Observers \ {o} :
              last_sent_idx'[p] = last_sent_idx[p] /\ sent'[p] = sent[p]

\* C6 as claimed: what a stream has yielded is a prefix of the log, and
\* its cursor is always the number of lines yielded, less one.
C6_CursorIsCount ==
    \A o \in Observers : Tailing(o) =>
        /\ IsPrefix(Lines(o), Log(otask[o]))
        /\ last_sent_idx[o] = Len(Lines(o)) - 1

PrefixTailing(o) ==
    Tailing(o) =>
        /\ IsPrefix(Lines(o), Log(otask[o]))
        /\ last_sent_idx[o] = Len(Lines(o)) - 1 - sent_in_batch[o]
        /\ opc[o] # "yield_msg" => sent_in_batch[o] = 0
\* C6 amended: what a stream has yielded is a prefix of the log of its
\* task; its cursor is the number of lines yielded less one whenever it is
\* not suspended inside the for loop of a batch, and there it lags by the
\* lines of the batch already yielded; a step of one stream changes neither
\* the registry nor another stream's cursor or events.
C6_PrefixTailing ==
    /\ \A o \in Observers : PrefixTailing(o)
    /\ [][/\ StreamFrame
          /\ \A o \in Observers :
                (StreamMoved(o) \/ tasks' # tasks) => PrefixTailing(o)']_vars

C6_Witness ==
    /\ otask[1] = 1 /\ otask[2] = 1
    /\ opc[1] = "yield_msg" /\ sent_in_batch[1] = 2 /\ last_sent_idx[1] = 1
    /\ opc[2] = "poll" /\ last_sent_idx[2] = 0
    /\ Len(Log(1)) > 4

\* every line of the log as a stream event, in log order
Backlog(t) == [i \in 1..Len(Log(t)) |-> DataEvent(Log(t)[i])]

\* C7: a stream opened after its task became complete yields, in its first
\* iteration, every line of the log and then COMPLETE with the filename of
\* the record, and ends: it is never back at the sleep of line 261.
C7_LateObserver ==
    \A o \in Observers : late[o] =>
        /\ opc[o] = "poll" => sent[o] = << >>
        /\ opc[o] = "yield_msg" => IsPrefix(sent[o], Backlog(otask[o]))
        /\ opc[o] \in {"yield_end", "done"} =>
              /\ tasks[otask[o]].filename = csv_filename(otask[o])
              /\ sent[o] = Backlog(otask[o]) \o
                           << CompleteEvent(tasks[otask[o]].filename) >>

C7_Witness ==
    \E o \in Observers : late[o] /\ opc[o] = "done" /\ Len(sent[o]) > 4

\* C2: a fatal error sets the status to Error with the exception text, and
\* every stream of the task that is not closed by its client gets to yield
\* ERROR with that text as its last event.
C2_ErrorDelivered ==
    /\ (wpc[1] = "except") ~>
          (Terminal(1) /\ Status(1) = "error"
             /\ tasks[1].error_message = exc[1])
    /\ \A o \in Observers :
          (opc[o] \in {"poll", "yield_msg"} /\ otask[o] = 1 /\ Terminal(1)
             /\ Status(1) = "error")
          ~> \/ opc[o] = "closed"
             \/ /\ opc[o] \in {"yield_end", "done"} /\ Terminal(1)
                /\ sent[o][Len(sent[o])] = ErrorEvent(tasks[1].error_message)

\* C5: a started runner reaches Complete or Error whatever the clients of
\* the streams do.
C5_CrawlTerminates == (wpc[1] = "start") ~> Terminal(1)


\* steps of the crawl engine of task t: an address is marked visited, the
\* front of the frontier is popped, an entry is appended, the run returns
Crawling(t) ==
    wpc[t] \in {"crawl_start", "loop", "scraping", "fetch", "found_emails",
                "searching", "links", "queued", "none_found", "page_error"}
Visits(t) == wpc[t] = "loop" /\ wpc'[t] = "scraping"
Pops(t) == wpc[t] = "loop" /\ urls_to_visit[t] # << >>
              /\ urls_to_visit'[t] = Tail(urls_to_visit[t])
Enqueues(t) == Crawling(t) /\ Len(urls_to_visit'[t]) > Len(urls_to_visit[t])
Returns(t) == wpc[t] = "loop" /\ wpc'[t] \in {"site_ok", "site_none"}

SameAuthority ==
    \A t \in TaskIds : \A url \in visited_urls[t] :
        url.netloc = website_url(t).netloc
\* C9: within one run of the crawl engine an address is marked visited
\* only if it was not visited before, and every visited address has the
\* netloc of the seed.
C9_VisitOnceSameAuthority ==
    /\ SameAuthority
    /\ [][/\ SameAuthority'
          /\ \A t \in TaskIds : Visits(t) =>
                /\ cur'[t][1] \notin visited_urls[t]
                /\ visited_urls'[t] = visited_urls[t] \cup {cur'[t][1]}
                /\ cur'[t][1].netloc = website_url(t).netloc]_vars

C9_Witness == visited_urls[1] = {HomeA, AboutA, TeamA}

DepthAtMostOne ==
    \A t \in TaskIds : \A k \in 1..Len(urls_to_visit[t]) :
        urls_to_visit[t][k][2] \in {0, 1}
\* C10: with MAX_DEPTH = 1 every frontier entry has depth 0 or 1; every
\* entry popped from the frontier is marked visited, the seed included;
\* the run returns only with the frontier empty and the seed visited;
\* entries are appended only for a keyword link of the depth-0 page.
C10_OneHop ==
    /\ DepthAtMostOne
    /\ [][DepthAtMostOne' /\ \A t \in TaskIds :
            /\ Pops(t) => /\ Visits(t)
                          /\ Head(urls_to_visit[t])[1] \in visited_urls'[t]
            /\ Returns(t) => /\ urls_to_visit[t] = << >>
                             /\ website_url(t) \in visited_urls[t]
            /\ Enqueues(t) =>
                  /\ wpc[t] = "links" /\ current_processing_depth(t) = 0
                  /\ urls_to_visit'[t][Len(urls_to_visit'[t])][2] = 1
                  /\ is_target_link(Web(current_url(t)).links[li[t]])]_vars

C10_Witness ==
    /\ wpc[1] = "fetch" /\ cur[1] = << TeamA, 1 >>
    /\ AboutA \in visited_urls[1] /\ urls_to_visit[1] = << >>


\* a page of the crawl of task t fails / the failure has been logged
PageFails(t) == wpc[t] # "page_error" /\ wpc'[t] = "page_error"
PageErrorLogged(t) == wpc[t] = "page_error" /\ wpc'[t] # "page_error"
HasLine(t, text, url) ==
    \E i \in 1..Len(Log(t)) : Log(t)[i].text = text /\ Log(t)[i].url = url

\* C11: a page failure (in the fetch or in the link loop) changes neither
\* the record nor what the crawl has collected and queued; the handler of
\* line 126 appends the "Error scraping" line with the address and the
\* error text, leaves the status Processing and continues with the next
\* frontier entry; the crawl returns the row of what it collected; after
\* a page failure the crawl returns, and the task becomes Complete unless
\* a fatal error of the batch (an address urlparse rejects, a failing
\* artifact write) comes in between.
C11_PageErrorContained ==
    /\ [][\A t \in TaskIds :
            /\ PageFails(t) =>
                  /\ wpc[t] \in {"fetch", "links"}
                  /\ tasks' = tasks
                  /\ UNCHANGED << emails_collected, urls_to_visit,
                                  visited_urls, rows >>
            /\ PageErrorLogged(t) =>
                  /\ wpc'[t] = "loop"
                  /\ Status(t) = "processing"
                  /\ tasks' = [tasks EXCEPT ![t].progress_messages =
                        Append(@, Msg("Error scraping", current_url(t), 0,
                                      exc[t]))]
                  /\ UNCHANGED << emails_collected, urls_to_visit,
                                  visited_urls, rows >>
            /\ Returns(t) =>
                  rows'[t] = Append(rows[t], row_of(website_url(t),
                                                    emails_collected[t]))
       ]_vars
    /\ \A t \in TaskIds :
          (wpc[t] = "page_error") ~> (wpc[t] \in {"site_ok", "site_none"})
    /\ \A t \in TaskIds :
          (wpc[t] = "page_error") ~>
             \/ t \in DOMAIN tasks /\ Status(t) = "complete"
             \/ wpc[t] \in {"except", "except_log"}

C11_Witness ==
    /\ 1 \in DOMAIN tasks /\ Status(1) = "complete"
    /\ HasLine(1, "Error scraping", AboutA)
    /\ files[1] = FileOf(<< << HomeA, << "info@a.com" >> >>,
                            << HomeB, << "hi@b.com" >> >> >>)


\* the crawl engine returns without a crawl: the base address is invalid
ReturnsInvalid(t) == wpc[t] = "crawl_enter" /\ wpc'[t] = "site_none"
AllEmails == { EmailOrder[i] : i \in 1..Len(EmailOrder) }
ArtifactOfComplete(t) ==
    (t \in DOMAIN tasks /\ Status(t) = "complete") =>
        /\ files[t].exists
        /\ files[t].rows = << Header >> \o rows[t]
        /\ Len(files[t].rows) = 1 + Len(tasks[t].urls)
        /\ \A i \in 1..Len(tasks[t].urls) :
              /\ files[t].rows[i + 1][1] = tasks[t].urls[i]
              /\ \/ files[t].rows[i + 1][2] = Sentinel
                 \/ \E S \in SUBSET AllEmails \ {{}} :
                       files[t].rows[i + 1][2] = sorted(S)

\* C12: the artifact of a Complete task of N sites is the header row and
\* N data rows, row i for the i-th site in input order; the row of a site
\* is appended when its crawl returns, with the sorted emails of the set
\* returned if that is non-empty and with the sentinel if it is empty (an
\* invalid base address included).
C12_ArtifactRows ==
    /\ \A t \in TaskIds : ArtifactOfComplete(t)
    /\ [][\A t \in TaskIds :
            /\ ArtifactOfComplete(t)'
            /\ Returns(t) =>
                  /\ Len(rows[t]) = wi[t]
                  /\ rows'[t] = Append(rows[t],
                        << tasks[t].urls[wi[t] + 1],
                           IF emails_collected[t] = {} THEN Sentinel
                           ELSE sorted(emails_collected[t]) >>)
            /\ ReturnsInvalid(t) =>
                  /\ Len(rows[t]) = wi[t]
                  /\ rows'[t] = Append(rows[t],
                        << tasks[t].urls[wi[t] + 1], Sentinel >>)]_vars

C12_Witness ==
    /\ 1 \in DOMAIN tasks /\ Status(1) = "complete"
    /\ tasks[1].urls = << HomeA, NoHost >>
    /\ files[1].rows = << Header, << HomeA, << "ceo@a.com", "info@a.com" >> >>,
                          << NoHost, Sentinel >> >>


\* stream o was opened for an id that is not a key of tasks
Unknown(o) == opc[o] # "unopened" /\ otask[o] \notin DOMAIN tasks
\* the events of o are one not-found event for its id and nothing else
OneNotFound(events, task_id) ==
    /\ Len(events) = 1
    /\ events[1].kind = "NOTFOUND" /\ events[1].ref = << task_id >>
NotFoundOnly(o) ==
    Unknown(o) =>
        /\ opc[o] # "yield_msg"
        /\ opc[o] \in {"poll", "closed"} => sent[o] = << >>
        /\ opc[o] \in {"yield_end", "done"} => OneNotFound(sent[o], otask[o])

\* C13: a stream whose id is not in the registry yields nothing but one
\* not-found event, at its first iteration, and then ends: from that yield
\* the generator only breaks out of the loop (or is closed); its steps
\* leave the registry as it is.
C13_UnknownId ==
    /\ \A o \in Observers : NotFoundOnly(o)
    /\ [][\A o \in Observers :
            /\ NotFoundOnly(o)'
            /\ (Unknown(o) /\ StreamMoved(o)) =>
                  /\ tasks' = tasks
                  /\ opc[o] = "poll" =>
                        \/ opc'[o] = "closed"
                        \/ /\ opc'[o] = "yield_end"
                           /\ OneNotFound(sent'[o], otask[o])
                  /\ opc[o] = "yield_end" => opc'[o] \in {"done", "closed"}
                  /\ opc[o] \notin {"done", "closed"}]_vars

C13_Witness ==
    \E o \in Observers :
        /\ opc[o] = "done" /\ otask[o] = MaxTasks
        /\ OneNotFound(sent[o], MaxTasks)
        /\ 1 \in DOMAIN tasks /\ Len(Log(1)) > 1


\* C14: a record is never removed and every step leaves the log of every
\* task as it was or longer by one line at its end; the log of a new
\* record is the one line "Task initiated.".
C14_LogAppendOnly ==
    [][\A t \in TaskIds :
        /\ t \in DOMAIN tasks =>
              /\ t \in DOMAIN tasks'
              /\ IsPrefix(Log(t), tasks'[t].progress_messages)
              /\ Len(tasks'[t].progress_messages) <= Len(Log(t)) + 1
        /\ (t \notin DOMAIN tasks /\ t \in DOMAIN tasks') =>
              tasks'[t].progress_messages = << TaskInitiated >>]_vars

C14_Witness ==
    \E a, b \in DOMAIN tasks :
        /\ a # b
        /\ HasLine(a, "Skipping invalid base URL", NoHost)
        /\ HasLine(a, "No emails found for", NoHost)
        /\ HasLine(b, "Found emails", HomeB)


\* C15: a generator that is suspended at a yield or sleeps between two
\* iterations does not own tasks_lock, and a runner does not own it at the
\* pacing sleep and the fetch.
C15_LockHeldBriefly ==
    /\ \A o \in Observers :
          opc[o] \in {"poll", "yield_msg", "yield_end"} => lock # Stream(o)
    /\ \A t \in TaskIds : wpc[t] = "fetch" => lock # Runner(t)


\* C16: a thread that is about to take tasks_lock (a runner at a call of
\* log_progress or at one of its with blocks) does not own it.
C16_NoReacquire ==
    \A t \in TaskIds :
        wpc[t] \in LogPcs \cup {"start", "set_complete", "except"}
            => lock # Runner(t)


\* C17: in every record the filename is set exactly when the status is
\* Complete and the error_message exactly when it is Error; so neither is
\* set in a Pending or Processing record and they are never set together.
C17_TerminalFields ==
    \A t \in DOMAIN tasks :
        /\ tasks[t].filename # None <=> Status(t) = "complete"
        /\ tasks[t].error_message # None <=> Status(t) = "error"
        /\ Status(t) \in {"pending", "processing", "complete", "error"}

C17_Witness ==
    \E a, b \in DOMAIN tasks :
        /\ Status(a) = "complete"
        /\ tasks[a].filename = << "scraped_emails_", a, ".csv" >>
        /\ tasks[a].error_message = None
        /\ Status(b) = "error" /\ tasks[b].filename = None
        /\ tasks[b].error_message = << "Invalid IPv6 URL" >>


\* only the last event of a stream is not a log line; when it is COMPLETE
\* or ERROR the stream has yielded the whole log of its task
TerminalLast(o) ==
    /\ \A i \in 1..(Len(sent[o]) - 1) : sent[o][i].kind = "data"
    /\ (sent[o] # << >> /\ sent[o][Len(sent[o])].kind \in {"COMPLETE", "ERROR"})
          => /\ opc[o] \in {"yield_end", "done"}
             /\ Terminal(otask[o])
             /\ Lines(o) = Log(otask[o])

\* C18: no step changes the log of a task whose status is Complete or
\* Error; a stream that has yielded COMPLETE or ERROR has yielded every
\* line of the log before it, and yields nothing after it.
C18_TerminalEventLast ==
    /\ \A o \in Observers : TerminalLast(o)
    /\ [][/\ \A t \in TaskIds :
                Terminal(t) => tasks'[t].progress_messages = Log(t)
          /\ \A o \in Observers :
                /\ StreamMoved(o) => TerminalLast(o)'
                /\ (opc[o] \in {"yield_end", "done"} /\ opc'[o] # "closed")
                      => sent'[o] = sent[o]]_vars

C18_Witness ==
    \E o \in Observers :
        /\ opc[o] = "done" /\ ~ late[o] /\ otask[o] = 1
        /\ Len(sent[o]) > 5
        /\ sent[o][Len(sent[o])].kind = "COMPLETE"
        /\ sent[o][Len(sent[o]) - 1].msg.text
              = "Scraping complete. Results saved to server"


\* the addresses the keyword links of the page at `seed` resolve to
KeywordTargets(seed) ==
    LET links == Web(seed).links IN
    { urljoin(seed, links[i].href) :
        i \in { j \in 1..Len(links) : is_target_link(links[j]) } }
Frontier(t) == { urls_to_visit[t][k][1] : k \in 1..Len(urls_to_visit[t]) }
BoundedCrawl(t) ==
    (visited_urls[t] # {} \/ urls_to_visit[t] # << >>) =>
        /\ Crawling(t)
        /\ Cardinality(visited_urls[t])
              <= 1 + Cardinality(KeywordTargets(website_url(t)))
        /\ visited_urls[t] \cup Frontier(t)
              \subseteq {website_url(t)} \cup KeywordTargets(website_url(t))
        /\ Cardinality(Frontier(t)) = Len(urls_to_visit[t])
        /\ Frontier(t) \cap visited_urls[t] = {}

\* C19: a crawl visits at most the seed and the addresses the keyword
\* links of the seed page resolve to; its frontier holds no address twice
\* and none that is visited, and an address is appended only if it is in
\* neither; a crawl that has started returns (its log_progress calls
\* getting the lock).
C19_BoundedCrawl ==
    /\ \A t \in TaskIds : BoundedCrawl(t)
    /\ [][\A t \in TaskIds :
            /\ BoundedCrawl(t)'
            /\ Enqueues(t) =>
                  /\ urls_to_visit'[t][Len(urls_to_visit'[t])][1]
                        \notin visited_urls[t] \cup Frontier(t)
                  /\ Len(urls_to_visit'[t]) = Len(urls_to_visit[t]) + 1]_vars
    /\ \A t \in TaskIds :
          (wpc[t] = "crawl_start") ~> (wpc[t] \in {"site_ok", "site_none"})

C19_Witness ==
    /\ wpc[1] = "loop" /\ visited_urls[1] = {HomeA}
    /\ urls_to_visit[1] = << << AboutA, 1 >>, << TeamA, 1 >> >>


\* C20: a task whose status is Error has no artifact file, complete or
\* partial, and its runner is not started again.
C20_NoArtifactOnError ==
    \A t \in DOMAIN tasks :
        Status(t) = "error" =>
            /\ ~ files[t].exists
            /\ wpc[t] \in {"except_log", "done"}

=============================================================================
